---- MODULE Spec2Model ----
(***************************************************************************)
(* Model of stock_dashboard.py: one run of the Streamlit script (fetch,    *)
(* guard, metrics row, indicator calculations, charts, raw-data tab,       *)
(* financials tab) and the reruns a widget change triggers.                *)
(*                                                                         *)
(* Numbers.  The script computes in IEEE doubles.  The model keeps the     *)
(* special values (NaN, +inf, -inf) and computes every finite value as an  *)
(* exact rational over unbounded integers, so rounding error is the one    *)
(* thing abstracted away; a zero has no sign.  pandas' rolling variance is *)
(* kept as the variance itself and a band value as  q + c * sqrt(r).       *)
(***************************************************************************)
EXTENDS Integers, Sequences, FiniteSets, TLC

(***************************************************************************)
(* Unbounded integers: little-endian digit sequences in base Base.  The    *)
(* value of ds is the sum of ds[i] * Base^(i-1); a canonical sequence has  *)
(* digits in 0..Base-1 except a top digit of -1 for a negative number, and *)
(* no redundant top digit.                                                 *)
(***************************************************************************)
Base == 1000

RECURSIVE Carry(_, _)
Carry(ds, c) ==
    IF ds = <<>>
    THEN IF c = 0 THEN <<>>
         ELSE IF c = -1 THEN <<-1>>
         ELSE <<c % Base>> \o Carry(<<>>, c \div Base)
    ELSE LET t == Head(ds) + c
         IN  <<t % Base>> \o Carry(Tail(ds), t \div Base)

RECURSIVE Strip(_)
Strip(ds) ==
    LET n == Len(ds)
    IN  IF n = 0 THEN ds
        ELSE IF ds[n] = 0 THEN Strip(SubSeq(ds, 1, n - 1))
        ELSE IF ds[n] = -1 /\ n > 1 /\ ds[n - 1] = Base - 1
             THEN Strip(SubSeq(ds, 1, n - 2) \o <<-1>>)
        ELSE ds

Norm(ds) == Strip(Carry(ds, 0))

IInt(k) == Norm(<<k>>)
IZero == <<>>
IOne == <<1>>
ISign(a) == IF a = <<>> THEN 0 ELSE IF a[Len(a)] < 0 THEN -1 ELSE 1
IDigit(a, i) == IF i >= 1 /\ i <= Len(a) THEN a[i] ELSE 0
IMax(m, n) == IF m >= n THEN m ELSE n
IAdd(a, b) == Norm([i \in 1..IMax(Len(a), Len(b)) |-> IDigit(a, i) + IDigit(b, i)])
INeg(a) == Norm([i \in 1..Len(a) |-> 0 - a[i]])
ISub(a, b) == IAdd(a, INeg(b))

RECURSIVE ConvSum(_, _, _, _)
ConvSum(a, b, k, i) ==
    IF i > Len(a) \/ i > k THEN 0
    ELSE a[i] * IDigit(b, k + 1 - i) + ConvSum(a, b, k, i + 1)

IMul(a, b) ==
    IF a = <<>> \/ b = <<>> THEN <<>>
    ELSE IF a = <<1>> THEN b
    ELSE IF b = <<1>> THEN a
    ELSE Norm([k \in 1..(Len(a) + Len(b) - 1) |-> ConvSum(a, b, k, 1)])

(***************************************************************************)
(* Floating-point values: NaN, the two infinities, or a rational n/d with  *)
(* d > 0 (not reduced: values are compared with FEq, never with =).        *)
(***************************************************************************)
NaN == [t |-> "nan", n |-> IZero, d |-> IOne]
PInf == [t |-> "pinf", n |-> IZero, d |-> IOne]
NInf == [t |-> "ninf", n |-> IZero, d |-> IOne]
Rat(n, d) == [t |-> "num", n |-> n, d |-> d]
Num(k) == Rat(IInt(k), IOne)

IsNum(x) == x.t = "num"
IsNaN(x) == x.t = "nan"
IsInf(x) == x.t \in {"pinf", "ninf"}
FSign(x) == IF x.t = "pinf" THEN 1 ELSE IF x.t = "ninf" THEN -1 ELSE ISign(x.n)
InfOfSign(s) == IF s > 0 THEN PInf ELSE NInf

FNeg(x) ==
    IF IsNum(x) THEN Rat(INeg(x.n), x.d)
    ELSE IF x.t = "pinf" THEN NInf
    ELSE IF x.t = "ninf" THEN PInf
    ELSE NaN

FAdd(x, y) ==
    IF IsNaN(x) \/ IsNaN(y) THEN NaN
    ELSE IF IsInf(x) /\ IsInf(y) THEN (IF x.t = y.t THEN x ELSE NaN)
    ELSE IF IsInf(x) THEN x
    ELSE IF IsInf(y) THEN y
    ELSE IF x.d = y.d THEN Rat(IAdd(x.n, y.n), x.d)
    ELSE Rat(IAdd(IMul(x.n, y.d), IMul(y.n, x.d)), IMul(x.d, y.d))

FSub(x, y) == FAdd(x, FNeg(y))

FMul(x, y) ==
    IF IsNaN(x) \/ IsNaN(y) THEN NaN
    ELSE IF IsInf(x) \/ IsInf(y)
         THEN (IF FSign(x) = 0 \/ FSign(y) = 0 THEN NaN
               ELSE InfOfSign(FSign(x) * FSign(y)))
    ELSE Rat(IMul(x.n, y.n), IMul(x.d, y.d))

FDiv(x, y) ==
    IF IsNaN(x) \/ IsNaN(y) THEN NaN
    ELSE IF IsInf(x) THEN (IF IsInf(y) THEN NaN
                           ELSE InfOfSign(FSign(x) * (IF FSign(y) < 0 THEN -1 ELSE 1)))
    ELSE IF IsInf(y) THEN Num(0)
    ELSE IF FSign(y) = 0 THEN (IF FSign(x) = 0 THEN NaN ELSE InfOfSign(FSign(x)))
    ELSE IF FSign(y) > 0 THEN Rat(IMul(x.n, y.d), IMul(x.d, y.n))
    ELSE Rat(INeg(IMul(x.n, y.d)), INeg(IMul(x.d, y.n)))

\* x == y on doubles: NaN equals nothing, itself included.
FEq(x, y) ==
    IF IsNaN(x) \/ IsNaN(y) THEN FALSE
    ELSE IF IsInf(x) \/ IsInf(y) THEN x.t = y.t
    ELSE IMul(x.n, y.d) = IMul(y.n, x.d)

\* x > y on doubles: FALSE when either side is NaN.
FGt(x, y) ==
    IF IsNaN(x) \/ IsNaN(y) THEN FALSE
    ELSE IF x.t = "pinf" THEN y.t # "pinf"
    ELSE IF y.t = "ninf" THEN x.t # "ninf"
    ELSE IF x.t = "ninf" \/ y.t = "pinf" THEN FALSE
    ELSE ISign(ISub(IMul(x.n, y.d), IMul(y.n, x.d))) > 0

FLt(x, y) == FGt(y, x)
FLe(x, y) == FEq(x, y) \/ FLt(x, y)

(***************************************************************************)
(* pandas Series operations the script calls.  A Series is a sequence of   *)
(* floating-point values; position i of the model is iloc[i-1].           *)
(***************************************************************************)

\* Series.diff(): NaN at the first position, then x[i] - x[i-1].
Diff(s) == [i \in 1..Len(s) |-> IF i = 1 THEN NaN ELSE FSub(s[i], s[i - 1])]

\* delta.where(delta > 0, 0): delta where the condition is True, else 0.
\* A NaN compares False, so the NaN that diff() leaves in front becomes 0.
WhereGt0(delta) ==
    [i \in 1..Len(delta) |-> IF FGt(delta[i], Num(0)) THEN delta[i] ELSE Num(0)]

\* delta.where(delta < 0, 0)
WhereLt0(delta) ==
    [i \in 1..Len(delta) |-> IF FLt(delta[i], Num(0)) THEN delta[i] ELSE Num(0)]

SeriesNeg(s) == [i \in 1..Len(s) |-> FNeg(s[i])]
SeriesAdd(a, b) == [i \in 1..Len(a) |-> FAdd(a[i], b[i])]
SeriesSub(a, b) == [i \in 1..Len(a) |-> FSub(a[i], b[i])]
SeriesDiv(a, b) == [i \in 1..Len(a) |-> FDiv(a[i], b[i])]
ScalarAdd(k, s) == [i \in 1..Len(s) |-> FAdd(Num(k), s[i])]
ScalarSub(k, s) == [i \in 1..Len(s) |-> FSub(Num(k), s[i])]
ScalarDiv(k, s) == [i \in 1..Len(s) |-> FDiv(Num(k), s[i])]

\* Series.rolling(window, min_periods).mean(): pandas slides over the series
\* keeping the sum and the count of the non-NaN observations of the last
\* `window` positions, and gives a value only when that count reaches
\* min_periods.  st is that running state and the output so far.
RECURSIVE RollMeanFrom(_, _, _, _)
RollMeanFrom(vals, window, min_periods, st) ==
    IF Len(st.out) = Len(vals) THEN st.out
    ELSE LET i == Len(st.out) + 1
             old == i - window
             gone == old >= 1 /\ ~IsNaN(vals[old])
             nobs1 == IF gone THEN st.nobs - 1 ELSE st.nobs
             sum1 == IF gone THEN FSub(st.sum, vals[old]) ELSE st.sum
             here == ~IsNaN(vals[i])
             nobs2 == IF here THEN nobs1 + 1 ELSE nobs1
             sum2 == IF here THEN FAdd(sum1, vals[i]) ELSE sum1
             result == IF nobs2 >= min_periods /\ nobs2 > 0
                       THEN FDiv(sum2, Num(nobs2)) ELSE NaN
         IN  RollMeanFrom(vals, window, min_periods,
                          [nobs |-> nobs2, sum |-> sum2, out |-> Append(st.out, result)])

\* A rolling mean filled from partial windows (min_periods=1).
RollingMeanPartial(vals, window) ==
    RollMeanFrom(vals, window, 1, [nobs |-> 0, sum |-> Num(0), out |-> <<>>])

\* Series.rolling(window=window).mean(): min_periods defaults to the window.
RollingMean(vals, window) ==
    RollMeanFrom(vals, window, window, [nobs |-> 0, sum |-> Num(0), out |-> <<>>])

\* Series.rolling(window).var(ddof=1), min_periods = window: sliding sums of x
\* and x^2 (pandas keeps the mean and the sum of squared deviations, which is
\* the same number in exact arithmetic); a negative result is clipped to 0.
RECURSIVE RollVarFrom(_, _, _)
RollVarFrom(vals, window, st) ==
    IF Len(st.out) = Len(vals) THEN st.out
    ELSE LET i == Len(st.out) + 1
             old == i - window
             gone == old >= 1 /\ ~IsNaN(vals[old])
             nobs1 == IF gone THEN st.nobs - 1 ELSE st.nobs
             sum1 == IF gone THEN FSub(st.sum, vals[old]) ELSE st.sum
             sq1 == IF gone THEN FSub(st.sumsq, FMul(vals[old], vals[old])) ELSE st.sumsq
             here == ~IsNaN(vals[i])
             nobs2 == IF here THEN nobs1 + 1 ELSE nobs1
             sum2 == IF here THEN FAdd(sum1, vals[i]) ELSE sum1
             sq2 == IF here THEN FAdd(sq1, FMul(vals[i], vals[i])) ELSE sq1
             ssqdm == FSub(sq2, FDiv(FMul(sum2, sum2), Num(nobs2)))
             var == FDiv(ssqdm, Num(nobs2 - 1))
             result == IF nobs2 >= window /\ nobs2 > 1
                       THEN (IF FLt(var, Num(0)) THEN Num(0) ELSE var)
                       ELSE NaN
         IN  RollVarFrom(vals, window,
                         [nobs |-> nobs2, sum |-> sum2, sumsq |-> sq2,
                          out |-> Append(st.out, result)])

RollingVar(vals, window) ==
    RollVarFrom(vals, window,
                [nobs |-> 0, sum |-> Num(0), sumsq |-> Num(0), out |-> <<>>])

(***************************************************************************)
(* Values  q + c * sqrt(r)  with q, c, r floating-point values, r >= 0:    *)
(* what a standard deviation and a band built from it are.                 *)
(***************************************************************************)
Surd(q, c, r) == [q |-> q, c |-> c, r |-> r]
SurdNaN == Surd(NaN, Num(0), Num(0))
SurdOf(x) == Surd(x, Num(0), Num(0))
SurdIsNaN(x) == IsNaN(x.q) \/ IsNaN(x.c) \/ IsNaN(x.r)
Sqrt(v) == IF IsNaN(v) THEN SurdNaN ELSE Surd(Num(0), Num(1), v)
SurdFlat(x) == FSign(x.c) = 0 \/ FSign(x.r) = 0
SurdScale(k, x) == IF SurdIsNaN(x) THEN SurdNaN ELSE Surd(FMul(Num(k), x.q), FMul(Num(k), x.c), x.r)
\* x + y and x - y, where at most one radicand is in play.
SurdAdd(x, y) ==
    IF SurdIsNaN(x) \/ SurdIsNaN(y) THEN SurdNaN
    ELSE Surd(FAdd(x.q, y.q), FAdd(x.c, y.c), IF SurdFlat(x) THEN y.r ELSE x.r)
SurdSub(x, y) == SurdAdd(x, SurdScale(-1, y))
\* The sign of q + c * sqrt(r).
SurdSign(x) ==
    LET sq == FSign(x.q)
        sc == IF SurdFlat(x) THEN 0 ELSE FSign(x.c)
    IN  IF sc = 0 THEN sq
        ELSE IF sq = 0 \/ sq = sc THEN sc
        ELSE LET q2 == FMul(x.q, x.q)
                 c2r == FMul(FMul(x.c, x.c), x.r)
             IN  IF FGt(q2, c2r) THEN sq ELSE IF FGt(c2r, q2) THEN sc ELSE 0
SurdSameRadicand(x, y) == SurdFlat(x) \/ SurdFlat(y) \/ FEq(x.r, y.r)
SurdEq(x, y) ==
    /\ ~SurdIsNaN(x) /\ ~SurdIsNaN(y)
    /\ SurdSameRadicand(x, y)
    /\ SurdSign(SurdSub(x, y)) = 0
SurdLe(x, y) ==
    /\ ~SurdIsNaN(x) /\ ~SurdIsNaN(y)
    /\ SurdSameRadicand(x, y)
    /\ SurdSign(SurdSub(x, y)) <= 0

\* Series.rolling(window).std(): the square root of the rolling variance.
RollingStd(vals, window) ==
    LET v == RollingVar(vals, window) IN [i \in 1..Len(v) |-> Sqrt(v[i])]

\* Series.ewm(span=span, adjust=adjust).mean(), with the defaults
\* ignore_na=False and min_periods=0: pandas' loop, carrying the weighted
\* average, the weight of the old average and the number of observations.
\* With adjust=False the new observation weighs alpha and the old weight is
\* reset to 1, which is the recurrence y[i] = alpha*x[i] + (1-alpha)*y[i-1].
Alpha(span) == FDiv(Num(2), Num(span + 1))

RECURSIVE EwmFrom(_, _, _, _)
EwmFrom(vals, alpha, adjust, st) ==
    IF Len(st.out) = Len(vals) THEN st.out
    ELSE LET cur == vals[Len(st.out) + 1]
             is_obs == ~IsNaN(cur)
             nobs1 == IF is_obs THEN st.nobs + 1 ELSE st.nobs
             new_wt == IF adjust THEN Num(1) ELSE alpha
             decayed == FMul(st.old_wt, FSub(Num(1), alpha))
             weighted1 ==
                 IF ~IsNaN(st.weighted)
                 THEN IF is_obs /\ ~FEq(st.weighted, cur)
                      THEN FDiv(FAdd(FMul(decayed, st.weighted), FMul(new_wt, cur)),
                                FAdd(decayed, new_wt))
                      ELSE st.weighted
                 ELSE IF is_obs THEN cur ELSE st.weighted
             old_wt1 ==
                 IF ~IsNaN(st.weighted)
                 THEN (IF is_obs
                       THEN (IF adjust THEN FAdd(decayed, new_wt) ELSE Num(1))
                       ELSE decayed)
                 ELSE st.old_wt
         IN  EwmFrom(vals, alpha, adjust,
                     [weighted |-> weighted1, old_wt |-> old_wt1, nobs |-> nobs1,
                      out |-> Append(st.out, IF nobs1 >= 1 THEN weighted1 ELSE NaN)])

EwmMean(vals, span, adjust) ==
    IF vals = <<>> THEN <<>>
    ELSE EwmFrom(vals, Alpha(span), adjust,
                 [weighted |-> vals[1], old_wt |-> Num(1),
                  nobs |-> IF IsNaN(vals[1]) THEN 0 ELSE 1, out |-> <<vals[1]>>])

(***************************************************************************)
(* The widgets and the numbers the script passes to pandas.                *)
(***************************************************************************)
Indicators == {"SMA 20", "SMA 50", "EMA 20", "Bollinger Bands", "MACD", "RSI"}
DefaultIndicators == {"SMA 20"}
EwmIndicators == {"EMA 20", "MACD"}

Sma20Window == 20
Sma50Window == 50
Ema20Span == 20
BBWindow == 20
BBNumStd == 2
RsiWindow == 14
MacdFastSpan == 12
MacdSlowSpan == 26
MacdSignalSpan == 9

(***************************************************************************)
(* What yf.download may hand back.  A DataFrame is its index (timestamps)  *)
(* and its columns, each a Series on that index.  Bounds: every series of  *)
(* up to MaxShortLen bars over the prices 1..MaxPrice, and, around each    *)
(* rolling window w, the series of w .. w+ExtraLen bars that start at      *)
(* StartPrice and repeat one of the step patterns of Shapes.  Each comes   *)
(* well-formed or with a row of NaN (a day the source has no data for)     *)
(* first; a short one also with its last timestamp duplicated or with the  *)
(* row of NaN last.                                                        *)
(***************************************************************************)
MaxShortLen == 3
MaxPrice == 2
ExtraLen == 1
StartPrice == 100
Shapes == {<<1>>, <<-1>>, <<0>>, <<1, -1>>, <<2, 0, -1>>}
Defects == {"none", "dup", "nan_first", "nan_last"}
LongDefects == {"none", "nan_first"}

PriceColumns == {"Open", "High", "Low", "Close", "Volume"}

NoFrame == [kind |-> "none", index |-> <<>>, cols |-> [c \in {} |-> <<>>]]
EmptyFrame == [kind |-> "frame", index |-> <<>>, cols |-> [c \in PriceColumns |-> <<>>]]

BarField(col, close, missing) ==
    IF missing THEN NaN
    ELSE IF col = "High" THEN Num(close + 1)
    ELSE IF col = "Low" THEN Num(close - 1)
    ELSE IF col = "Volume" THEN Num(1000 * close)
    ELSE Num(close)

\* The frame of the bars with these closes; the rows in `missing` hold NaN.
OHLCV(closes, index, missing) ==
    [kind |-> "frame", index |-> index,
     cols |-> [c \in PriceColumns |->
                  [i \in 1..Len(closes) |-> BarField(c, closes[i], i \in missing)]]]

\* The sum of the first k steps of a pattern that repeats.
RECURSIVE StepSum(_, _)
StepSum(shape, k) ==
    IF k = 0 THEN 0
    ELSE IF k > Len(shape)
         THEN (k \div Len(shape)) * StepSum(shape, Len(shape)) + StepSum(shape, k % Len(shape))
    ELSE shape[k] + StepSum(shape, k - 1)

Walk(shape, n) == [i \in 1..n |-> StartPrice + StepSum(shape, i - 1)]

ShortCloses == UNION {[1..n -> 1..MaxPrice] : n \in 1..MaxShortLen}
LongLens == {w + d : w \in {RsiWindow, Sma20Window, Sma50Window}, d \in 0..ExtraLen}
LongCloses == {Walk(shape, n) : shape \in Shapes, n \in LongLens}

WithDefect(closes, defect) ==
    LET n == Len(closes)
        ts == [i \in 1..n |-> IF defect = "dup" /\ i = n /\ n > 1 THEN n - 1 ELSE i]
        missing == IF defect = "nan_first" THEN {1}
                   ELSE IF defect = "nan_last" THEN {n}
                   ELSE {}
    IN  OHLCV(closes, ts, missing)

Downloads ==
    {NoFrame, EmptyFrame}
        \cup {WithDefect(c, d) : c \in ShortCloses, d \in Defects}
        \cup {WithDefect(c, d) : c \in LongCloses, d \in LongDefects}

NumRows(df) == Len(df.index)

\* The exponential recurrences are run on the short series only: their exact
\* values grow by several digits a bar.
WithinBounds(df, inds) == inds \cap EwmIndicators = {} \/ NumRows(df) <= MaxShortLen

(***************************************************************************)
(* DataFrame operations.                                                   *)
(***************************************************************************)
Column(df, name) == df.cols[name]
\* data[name] = series: the column is added (or replaced) in place.
SetColumn(df, name, series) == [df EXCEPT !.cols = (name :> series) @@ df.cols]
Columns(df) == DOMAIN df.cols

(***************************************************************************)
(* The calculations of tab 1, one operator per `if` of the script.         *)
(***************************************************************************)
\* SMA 20 with its warm-up rows dropped.
CalcSMA20Dropna(df, inds) ==
    IF "SMA 20" \in inds
    THEN SetColumn(df, "SMA_20",
                   SelectSeq(RollingMean(Column(df, "Close"), Sma20Window), IsNum))
    ELSE df

CalcSMA20(df, inds) ==
    IF "SMA 20" \in inds
    THEN SetColumn(df, "SMA_20", RollingMean(Column(df, "Close"), Sma20Window))
    ELSE df

CalcSMA50(df, inds) ==
    IF "SMA 50" \in inds
    THEN SetColumn(df, "SMA_50", RollingMean(Column(df, "Close"), Sma50Window))
    ELSE df

\* EMA 20 with pandas' default adjust=True.
CalcEMA20Adjusted(df, inds) ==
    IF "EMA 20" \in inds
    THEN SetColumn(df, "EMA_20", EwmMean(Column(df, "Close"), Ema20Span, TRUE))
    ELSE df

CalcEMA20(df, inds) ==
    IF "EMA 20" \in inds
    THEN SetColumn(df, "EMA_20", EwmMean(Column(df, "Close"), Ema20Span, FALSE))
    ELSE df

BandUpper(middle, std) ==
    [i \in 1..Len(middle) |-> SurdAdd(SurdOf(middle[i]), SurdScale(BBNumStd, std[i]))]
\* The lower band with the upper band's sign.
BandLowerPlus(middle, std) ==
    [i \in 1..Len(middle) |-> SurdAdd(SurdOf(middle[i]), SurdScale(BBNumStd, std[i]))]
BandLower(middle, std) ==
    [i \in 1..Len(middle) |-> SurdSub(SurdOf(middle[i]), SurdScale(BBNumStd, std[i]))]

CalcBollinger(df, inds) ==
    IF "Bollinger Bands" \in inds
    THEN LET d1 == SetColumn(df, "BB_Middle", RollingMean(Column(df, "Close"), BBWindow))
             d2 == SetColumn(d1, "BB_Upper",
                             BandUpper(Column(d1, "BB_Middle"),
                                       RollingStd(Column(d1, "Close"), BBWindow)))
         IN  SetColumn(d2, "BB_Lower",
                       BandLower(Column(d2, "BB_Middle"),
                                 RollingStd(Column(d2, "Close"), BBWindow)))
    ELSE df

RsiGain(close) == RollingMean(WhereGt0(Diff(close)), RsiWindow)
RsiLoss(close) == RollingMean(SeriesNeg(WhereLt0(Diff(close))), RsiWindow)
\* RSI with a zero average loss masked out before the division.
RsiOfMaskedLoss(gain, loss) ==
    LET masked == [i \in 1..Len(loss) |-> IF FEq(loss[i], Num(0)) THEN NaN ELSE loss[i]]
    IN  ScalarSub(100, ScalarDiv(100, ScalarAdd(1, SeriesDiv(gain, masked))))
RsiOf(gain, loss) == ScalarSub(100, ScalarDiv(100, ScalarAdd(1, SeriesDiv(gain, loss))))

CalcRSI(df, inds) ==
    IF "RSI" \in inds
    THEN SetColumn(df, "RSI", RsiOf(RsiGain(Column(df, "Close")), RsiLoss(Column(df, "Close"))))
    ELSE df

MacdLine(close) ==
    SeriesSub(EwmMean(close, MacdFastSpan, FALSE), EwmMean(close, MacdSlowSpan, FALSE))

\* MACD with the signal line smoothed from Close instead of the MACD line.
CalcMACDSignalOfClose(df, inds) ==
    IF "MACD" \in inds
    THEN LET d1 == SetColumn(df, "MACD_12_26", MacdLine(Column(df, "Close")))
         IN  SetColumn(d1, "MACD_Signal", EwmMean(Column(d1, "Close"), MacdSignalSpan, FALSE))
    ELSE df

CalcMACD(df, inds) ==
    IF "MACD" \in inds
    THEN LET d1 == SetColumn(df, "MACD_12_26", MacdLine(Column(df, "Close")))
         IN  SetColumn(d1, "MACD_Signal", EwmMean(Column(d1, "MACD_12_26"), MacdSignalSpan, FALSE))
    ELSE df

Calculate(df, inds) ==
    CalcMACD(CalcRSI(CalcBollinger(CalcEMA20(CalcSMA50(CalcSMA20(df, inds), inds), inds), inds), inds), inds)

(***************************************************************************)
(* The script.                                                             *)
(***************************************************************************)
VARIABLES
    pc,          \* where the run of the script is
    indicators,  \* the multiselect's value
    cache,       \* st.cache_data's entry for the current ticker and dates
    data,        \* the script's variable `data`
    metrics,     \* the metrics row
    traces,      \* the traces of the figures of tab 1, in order
    rawColumns   \* the columns of the table of tab 2

vars == <<pc, indicators, cache, data, metrics, traces, rawColumns>>

CacheMiss == [kind |-> "miss", index |-> <<>>, cols |-> [c \in {} |-> <<>>]]
NoMetrics == [shown |-> FALSE, price |-> NaN, change |-> NaN, pct |-> NaN,
              volume |-> NaN, high |-> NaN, low |-> NaN]

Init ==
    /\ pc = "get_data"
    /\ indicators = DefaultIndicators
    /\ cache = CacheMiss
    /\ data = NoFrame
    /\ metrics = NoMetrics
    /\ traces = <<>>
    /\ rawColumns = {}

\* data = get_data(ticker, start_date, end_date), under @st.cache_data: a hit
\* returns a copy of the stored value, a miss stores what the call returns
\* (None when yf.download raises).
GetData ==
    /\ pc = "get_data"
    /\ IF cache.kind # "miss"
       THEN data' = cache /\ UNCHANGED cache
       ELSE \E df \in Downloads :
                /\ WithinBounds(df, indicators)
                /\ data' = df
                /\ cache' = df
    /\ pc' = "guard"
    /\ UNCHANGED <<indicators, metrics, traces, rawColumns>>

\* if data is not None and not data.empty: ... else: st.warning(...)
Guard ==
    /\ pc = "guard"
    /\ pc' = IF data.kind = "frame" /\ NumRows(data) > 0 THEN "metrics" ELSE "no_data"
    /\ UNCHANGED <<indicators, cache, data, metrics, traces, rawColumns>>

Last(s) == s[Len(s)]
MetricsOf(df) ==
    LET last_close == Last(Column(df, "Close"))
        prev_close == Column(df, "Close")[NumRows(df) - 1]
        change == FSub(last_close, prev_close)
    IN  [shown |-> TRUE, price |-> last_close, change |-> change,
         pct |-> FMul(FDiv(change, prev_close), Num(100)),
         volume |-> Last(Column(df, "Volume")),
         high |-> Last(Column(df, "High")), low |-> Last(Column(df, "Low"))]

\* The metrics row: data['Close'].iloc[-2] raises IndexError on a one-row
\* frame, which ends the run with the exception on the page.
MetricsRow ==
    /\ pc = "metrics"
    /\ IF NumRows(data) < 2
       THEN pc' = "crashed" /\ UNCHANGED metrics
       ELSE pc' = "calculations" /\ metrics' = MetricsOf(data)
    /\ UNCHANGED <<indicators, cache, data, traces, rawColumns>>

Calculations ==
    /\ pc = "calculations"
    /\ data' = Calculate(data, indicators)
    /\ pc' = "charts"
    /\ UNCHANGED <<indicators, cache, metrics, traces, rawColumns>>

Trace(name, ind) == IF ind \in indicators THEN <<name>> ELSE <<>>

\* The main figure and the RSI and MACD figures: each trace is drawn from
\* data.index and one column of data.
Charts ==
    /\ pc = "charts"
    /\ traces' = <<"Price">> \o Trace("SMA_20", "SMA 20") \o Trace("SMA_50", "SMA 50")
                    \o Trace("EMA_20", "EMA 20")
                    \o Trace("BB_Upper", "Bollinger Bands") \o Trace("BB_Lower", "Bollinger Bands")
                    \o Trace("RSI", "RSI")
                    \o Trace("MACD_12_26", "MACD") \o Trace("MACD_Signal", "MACD")
    /\ \A i \in 1..Len(traces') : traces'[i] = "Price" \/ traces'[i] \in Columns(data)
    /\ pc' = "raw_data"
    /\ UNCHANGED <<indicators, cache, data, metrics, rawColumns>>

\* st.dataframe(data.sort_index(ascending=False)): a sorted copy, all columns.
RawDataTab ==
    /\ pc = "raw_data"
    /\ rawColumns' = Columns(data)
    /\ pc' = "financials"
    /\ UNCHANGED <<indicators, cache, data, metrics, traces>>

\* The financials tab shows what yf.Ticker(ticker).financials returns, or a
\* note; nothing of the price data is read or written.
FinancialsTab ==
    /\ pc = "financials"
    /\ pc' = "done"
    /\ UNCHANGED <<indicators, cache, data, metrics, traces, rawColumns>>

RunEnded == pc \in {"done", "no_data", "crashed"}

Rerun ==
    /\ pc' = "get_data"
    /\ data' = NoFrame
    /\ metrics' = NoMetrics
    /\ traces' = <<>>
    /\ rawColumns' = {}

\* The user adds an indicator to the multiselect or removes one: the script
\* runs again from the top, the cache entry is still there.
ToggleIndicator ==
    /\ RunEnded
    /\ \E ind \in Indicators :
           /\ indicators' = IF ind \in indicators THEN indicators \ {ind}
                            ELSE indicators \cup {ind}
           /\ WithinBounds(cache, indicators')
    /\ Rerun
    /\ UNCHANGED cache

\* The user types another ticker or picks other dates: another cache key.
ChangeTicker ==
    /\ RunEnded
    /\ cache' = CacheMiss
    /\ Rerun
    /\ UNCHANGED indicators

Next ==
    \/ GetData
    \/ Guard
    \/ MetricsRow
    \/ Calculations
    \/ Charts
    \/ RawDataTab
    \/ FinancialsTab
    \/ ToggleIndicator
    \/ ChangeTicker

Spec == Init /\ [][Next]_vars

(***************************************************************************)
(* Vocabulary of the properties.                                           *)
(***************************************************************************)
\* The calculations of the current run have been made.
Calculated == pc \in {"charts", "raw_data", "financials", "done"}
Close == Column(data, "Close")
Rows == 1..NumRows(data)
Has(name) == name \in Columns(data)
AllFinite(s) == \A i \in 1..Len(s) : IsNum(s[i])
AllNaN(s) == \A i \in 1..Len(s) : IsNaN(s[i])
AllSurdNaN(s) == \A i \in 1..Len(s) : SurdIsNaN(s[i])
StrictlyIncreasing(s) == \A i \in 2..Len(s) : FGt(s[i], s[i - 1])
IncreasingInts(s) == \A i \in 2..Len(s) : s[i] > s[i - 1]
\* A PriceSeries of the data model: strictly increasing timestamps, every
\* price and volume finite.
WellFormed(df) ==
    /\ df.kind = "frame"
    /\ IncreasingInts(df.index)
    /\ \A c \in PriceColumns : AllFinite(df.cols[c])
Malformed(df) == df.kind = "frame" /\ NumRows(df) > 0 /\ ~WellFormed(df)

\* The sum and the mean of s[lo..hi], and its sample variance (ddof = 1),
\* from their definitions.
RECURSIVE SumOf(_, _, _)
SumOf(s, lo, hi) ==
    IF lo > hi THEN Num(0)
    ELSE IF lo = hi THEN s[lo]
    ELSE LET mid == (lo + hi) \div 2
         IN  FAdd(SumOf(s, lo, mid), SumOf(s, mid + 1, hi))
MeanOf(s, lo, hi) == FDiv(SumOf(s, lo, hi), Num(hi - lo + 1))
SampleVar(s, lo, hi) ==
    LET m == MeanOf(s, lo, hi)
        dev2 == [i \in 1..Len(s) |-> IF i >= lo /\ i <= hi
                                     THEN FMul(FSub(s[i], m), FSub(s[i], m)) ELSE Num(0)]
    IN  FDiv(SumOf(dev2, lo, hi), Num(hi - lo))
\* The window of k positions that ends at i, when it is a full window of
\* numbers.
FullWindow(s, k, i) == i >= k /\ \A j \in (i - k + 1)..i : IsNum(s[j])

(***************************************************************************)
(* C1.  As claimed: with RSI selected, the averaged gain, the averaged     *)
(* loss and the RSI are undefined at exactly the first RsiWindow positions *)
(* of a well-formed series and defined from there on.                      *)
(***************************************************************************)
C1_RsiWarmupIsWindow ==
    (Calculated /\ "RSI" \in indicators /\ WellFormed(cache)) =>
        LET gain == RsiGain(Close)
            loss == RsiLoss(Close)
        IN  /\ Has("RSI")
            /\ \A i \in Rows :
                   /\ IsNaN(gain[i]) <=> i <= RsiWindow
                   /\ IsNaN(loss[i]) <=> i <= RsiWindow
                   /\ IsNaN(Column(data, "RSI")[i]) <=> i <= RsiWindow

(***************************************************************************)
(* C2.  As claimed: a series with a duplicated or non-increasing timestamp *)
(* or a NaN price or volume is rejected before any indicator is computed:  *)
(* no indicator column is ever produced from it.                           *)
(***************************************************************************)
C2_MalformedRejected ==
    Malformed(cache) => Columns(data) \subseteq PriceColumns

(***************************************************************************)
(* C3.  As claimed: on a well-formed series of n >= 1 bars, with a         *)
(* selected windowed indicator whose window exceeds n, the run raises no   *)
(* error and, once it ended, every position of that indicator's output is  *)
(* undefined.                                                              *)
(***************************************************************************)
SelectedShortOf(n) ==
    \/ "SMA 20" \in indicators /\ Sma20Window > n
    \/ "SMA 50" \in indicators /\ Sma50Window > n
    \/ "Bollinger Bands" \in indicators /\ BBWindow > n

C3_InsufficientDataNoError ==
    (WellFormed(cache) /\ NumRows(cache) >= 1 /\ SelectedShortOf(NumRows(cache))) =>
        /\ pc # "crashed"
        /\ RunEnded =>
               /\ pc = "done"
               /\ ("SMA 20" \in indicators /\ Sma20Window > NumRows(data)) =>
                      Has("SMA_20") /\ AllNaN(Column(data, "SMA_20"))
               /\ ("SMA 50" \in indicators /\ Sma50Window > NumRows(data)) =>
                      Has("SMA_50") /\ AllNaN(Column(data, "SMA_50"))
               /\ ("Bollinger Bands" \in indicators /\ BBWindow > NumRows(data)) =>
                      /\ Has("BB_Middle") /\ AllNaN(Column(data, "BB_Middle"))
                      /\ Has("BB_Upper") /\ AllSurdNaN(Column(data, "BB_Upper"))
                      /\ Has("BB_Lower") /\ AllSurdNaN(Column(data, "BB_Lower"))

(***************************************************************************)
(* C4.  A window-k rolling mean of Close (SMA_20, SMA_50, BB_Middle) is    *)
(* the arithmetic mean of Close over the k positions that end at i when    *)
(* these are k numbers, and undefined at every other position; so on a     *)
(* series of finite prices it is undefined exactly at the first k-1        *)
(* positions, and no position is filled from a partial window.             *)
(***************************************************************************)
IsWindowMean(col, k) ==
    /\ Len(col) = NumRows(data)
    /\ \A i \in Rows :
           IF FullWindow(Close, k, i)
           THEN FEq(col[i], MeanOf(Close, i - k + 1, i))
           ELSE IsNaN(col[i])

C4_RollingWarmup ==
    Calculated =>
        /\ "SMA 20" \in indicators => Has("SMA_20") /\ IsWindowMean(Column(data, "SMA_20"), 20)
        /\ "SMA 50" \in indicators => Has("SMA_50") /\ IsWindowMean(Column(data, "SMA_50"), 50)
        /\ "Bollinger Bands" \in indicators =>
               Has("BB_Middle") /\ IsWindowMean(Column(data, "BB_Middle"), 20)

C4_Witness ==
    /\ pc = "done" /\ Has("SMA_20") /\ Has("SMA_50") /\ Has("BB_Middle")
    /\ AllFinite(Close) /\ NumRows(data) > 50
    /\ IsNaN(Column(data, "SMA_20")[19]) /\ IsNum(Column(data, "SMA_20")[20])
    /\ IsNaN(Column(data, "SMA_50")[49]) /\ IsNum(Column(data, "SMA_50")[50])
    /\ ~FEq(Column(data, "SMA_50")[50], Column(data, "SMA_50")[51])

(***************************************************************************)
(* C5.  On a non-empty series of finite prices EMA_20 is a number at every *)
(* position, EMA_20[0] = Close[0], and for i > 0                           *)
(* EMA_20[i] = a * Close[i] + (1 - a) * EMA_20[i-1] with a = 2 / (20 + 1). *)
(***************************************************************************)
IsRecurrence(y, x, span) ==
    /\ Len(y) = Len(x)
    /\ AllFinite(y)
    /\ FEq(y[1], x[1])
    /\ \A i \in 2..Len(x) :
           FEq(y[i], FAdd(FMul(FDiv(Num(2), Num(span + 1)), x[i]),
                          FMul(FSub(Num(1), FDiv(Num(2), Num(span + 1))), y[i - 1])))

C5_EmaSeededRecurrence ==
    (Calculated /\ "EMA 20" \in indicators /\ AllFinite(Close)) =>
        Has("EMA_20") /\ IsRecurrence(Column(data, "EMA_20"), Close, 20)

C5_Witness ==
    /\ pc = "done" /\ Has("EMA_20") /\ AllFinite(Close) /\ NumRows(data) >= 3
    /\ ~FEq(Close[1], Close[2]) /\ ~FEq(Close[2], Close[3])
    /\ ~FEq(Column(data, "EMA_20")[3], Close[3])

(***************************************************************************)
(* C6.  On a strictly increasing series every RSI value is undefined or    *)
(* 100, and it is 100 wherever the averaged loss is defined (it is 0       *)
(* there): the division by a zero average loss gives neither an undefined  *)
(* value nor another number.                                               *)
(***************************************************************************)
C6_RsiIncreasingIs100 ==
    (Calculated /\ "RSI" \in indicators /\ AllFinite(Close) /\ StrictlyIncreasing(Close)) =>
        LET loss == RsiLoss(Close)
            rsi == Column(data, "RSI")
        IN  /\ Has("RSI")
            /\ \A i \in Rows :
                   /\ IsNaN(rsi[i]) \/ FEq(rsi[i], Num(100))
                   /\ IsNum(loss[i]) => FEq(loss[i], Num(0)) /\ FEq(rsi[i], Num(100))

C6_Witness ==
    /\ pc = "done" /\ Has("RSI") /\ AllFinite(Close) /\ StrictlyIncreasing(Close)
    /\ NumRows(data) > RsiWindow
    /\ FEq(Last(RsiLoss(Close)), Num(0))
    /\ FEq(Last(Column(data, "RSI")), Num(100))

(***************************************************************************)
(* C7.  As claimed: after the calculations the frame the script was handed *)
(* is as get_data returned it: the same bars, the same values, no column   *)
(* added.                                                                  *)
(***************************************************************************)
C7_InputNotMutated ==
    Calculated => data = cache

(***************************************************************************)
(* C8.  After the calculations every column of the frame, the price        *)
(* columns and each selected indicator's columns, has one entry per bar of *)
(* the series get_data returned, on that series' index, whatever the       *)
(* selection.                                                              *)
(***************************************************************************)
IndicatorColumns(inds) ==
    (IF "SMA 20" \in inds THEN {"SMA_20"} ELSE {})
        \cup (IF "SMA 50" \in inds THEN {"SMA_50"} ELSE {})
        \cup (IF "EMA 20" \in inds THEN {"EMA_20"} ELSE {})
        \cup (IF "Bollinger Bands" \in inds THEN {"BB_Middle", "BB_Upper", "BB_Lower"} ELSE {})
        \cup (IF "RSI" \in inds THEN {"RSI"} ELSE {})
        \cup (IF "MACD" \in inds THEN {"MACD_12_26", "MACD_Signal"} ELSE {})

C8_Alignment ==
    Calculated =>
        /\ Columns(data) = PriceColumns \cup IndicatorColumns(indicators)
        /\ data.index = cache.index
        /\ \A c \in Columns(data) : Len(Column(data, c)) = NumRows(cache)
        /\ \A c \in PriceColumns : Column(data, c) = Column(cache, c)

C8_Witness ==
    /\ pc = "done" /\ indicators = Indicators /\ NumRows(data) = MaxShortLen
    /\ Cardinality(Columns(data)) = 14

(***************************************************************************)
(* C9.  On a non-empty series of finite prices MACD_12_26 is the           *)
(* difference of the span-12 and the span-26 recurrences on Close, and     *)
(* MACD_Signal is the span-9 recurrence on MACD_12_26, seeded by           *)
(* MACD_12_26[0]; both are numbers at every position and both start at 0.  *)
(***************************************************************************)
RECURSIVE Recurrence(_, _, _)
Recurrence(x, span, i) ==
    IF i = 1 THEN x[1]
    ELSE FAdd(FMul(FDiv(Num(2), Num(span + 1)), x[i]),
              FMul(FSub(Num(1), FDiv(Num(2), Num(span + 1))), Recurrence(x, span, i - 1)))

C9_MacdConsistency ==
    (Calculated /\ "MACD" \in indicators /\ AllFinite(Close)) =>
        /\ Has("MACD_12_26") /\ Has("MACD_Signal")
        /\ Len(Column(data, "MACD_12_26")) = NumRows(data)
        /\ AllFinite(Column(data, "MACD_12_26"))
        /\ \A i \in Rows :
               FEq(Column(data, "MACD_12_26")[i],
                   FSub(Recurrence(Close, 12, i), Recurrence(Close, 26, i)))
        /\ IsRecurrence(Column(data, "MACD_Signal"), Column(data, "MACD_12_26"), 9)
        /\ FEq(Column(data, "MACD_12_26")[1], Num(0))
        /\ FEq(Column(data, "MACD_Signal")[1], Num(0))

C9_Witness ==
    /\ pc = "done" /\ Has("MACD_Signal") /\ AllFinite(Close) /\ NumRows(data) >= 3
    /\ ~FEq(Column(data, "MACD_12_26")[2], Num(0))
    /\ ~FEq(Column(data, "MACD_Signal")[2], Column(data, "MACD_12_26")[2])
    /\ ~FEq(Column(data, "MACD_Signal")[3], Column(data, "MACD_Signal")[2])

(***************************************************************************)
(* C10.  The three bands are defined at the same positions, and where they *)
(* are, BB_Lower <= BB_Middle <= BB_Upper and                              *)
(* BB_Upper - BB_Middle = BB_Middle - BB_Lower = 2 * the sample standard   *)
(* deviation of Close over the 20 positions that end there.                *)
(***************************************************************************)
BandsAt(i) ==
    LET mid == SurdOf(Column(data, "BB_Middle")[i])
        up == Column(data, "BB_Upper")[i]
        low == Column(data, "BB_Lower")[i]
    IN  /\ SurdIsNaN(up) <=> SurdIsNaN(mid)
        /\ SurdIsNaN(low) <=> SurdIsNaN(mid)
        /\ FullWindow(Close, 20, i) => ~SurdIsNaN(mid)
        /\ ~SurdIsNaN(mid) =>
               /\ SurdLe(low, mid) /\ SurdLe(mid, up)
               /\ SurdEq(SurdSub(up, mid), SurdSub(mid, low))
               /\ SurdEq(SurdSub(up, mid), SurdScale(2, Sqrt(SampleVar(Close, i - 19, i))))

C10_BandOrdering ==
    (Calculated /\ "Bollinger Bands" \in indicators) =>
        /\ Has("BB_Middle") /\ Has("BB_Upper") /\ Has("BB_Lower")
        /\ \A i \in Rows : BandsAt(i)

C10_Witness ==
    /\ pc = "done" /\ Has("BB_Upper") /\ NumRows(data) > BBWindow
    /\ ~SurdIsNaN(Column(data, "BB_Upper")[NumRows(data)])
    /\ ~SurdLe(Column(data, "BB_Upper")[NumRows(data)],
               SurdOf(Column(data, "BB_Middle")[NumRows(data)]))
    /\ SurdIsNaN(Column(data, "BB_Lower")[BBWindow - 1])
====
